---- MODULE Spec2Model ----
(***************************************************************************)
(* Model of lib/playground/functions/message-handler/handler.py: one turn  *)
(* of handle_message, the model calls it makes through                      *)
(* converse_make_request_stream, and the Athena pipeline                    *)
(* (run_athena_query, get_athena_query_results, execute_athena_query).      *)
(*                                                                          *)
(* Python strings are sequences of one-character strings. An optional      *)
(* value (None, or a local variable that is not bound yet) is the empty     *)
(* sequence; a present value v is <<v>>.                                    *)
(***************************************************************************)
EXTENDS Integers, Sequences, FiniteSets, TLC

VARIABLES body, pc, call, stream, response_text, tool_requests,
          converse_messages, bedrock_calls, sent,
          sql_query_response, sql_query, results, query_results_str,
          intent_response, generative_messages, generative_response,
          athena_calls, status, polls, job_pages, next_token, fetched,
          exc, ret

vars == <<body, pc, call, stream, response_text, tool_requests,
          converse_messages, bedrock_calls, sent,
          sql_query_response, sql_query, results, query_results_str,
          intent_response, generative_messages, generative_response,
          athena_calls, status, polls, job_pages, next_token, fetched,
          exc, ret>>

----------------------------------------------------------------------------
(* Bounds of the model *)

\* polls that may observe QUEUED or RUNNING before the job must settle
MaxPolls == 2
\* result pages of a succeeded job
MaxPages == 2
\* rows on one result page
MaxPageRows == 2

----------------------------------------------------------------------------
(* Python values *)

None == <<>>
Some(v) == <<v>>

Truthy_not_none(opt) == opt # None

\* truthiness of an optional string: None and "" are falsy
Truthy(opt) == opt # None /\ opt[1] # <<>>

\* truthiness of an optional token or session id held as a TLA+ string
TruthyId(opt) == opt # None /\ opt[1] # ""

UpperChars == <<"A","B","C","D","E","F","G","H","I","J","K","L","M",
                "N","O","P","Q","R","S","T","U","V","W","X","Y","Z">>
LowerChars == <<"a","b","c","d","e","f","g","h","i","j","k","l","m",
                "n","o","p","q","r","s","t","u","v","w","x","y","z">>

LowerChar(c) ==
    IF \E i \in 1..26 : UpperChars[i] = c
    THEN LowerChars[CHOOSE i \in 1..26 : UpperChars[i] = c]
    ELSE c

\* str.lower()
Lower(s) == [i \in 1..Len(s) |-> LowerChar(s[i])]

\* str.replace(c, '')
RECURSIVE Remove(_, _)
Remove(s, c) ==
    IF s = <<>> THEN <<>>
    ELSE IF Head(s) = c THEN Remove(Tail(s), c)
    ELSE <<Head(s)>> \o Remove(Tail(s), c)

Whitespace == {" ", "\n", "\t", "\r"}

RECURSIVE LStrip(_)
LStrip(s) ==
    IF s = <<>> THEN <<>>
    ELSE IF Head(s) \in Whitespace THEN LStrip(Tail(s))
    ELSE s

RECURSIVE RStrip(_)
RStrip(s) ==
    IF s = <<>> THEN <<>>
    ELSE IF s[Len(s)] \in Whitespace THEN RStrip(SubSeq(s, 1, Len(s) - 1))
    ELSE s

Strip_left_only(s) == LStrip(s)

\* str.strip()
Strip(s) == RStrip(LStrip(s))

\* str.startswith(p)
StartsWith(s, p) == Len(s) >= Len(p) /\ SubSeq(s, 1, Len(p)) = p

\* p in s
Contains(s, p) ==
    \E i \in 0..(Len(s) - Len(p)) : SubSeq(s, i + 1, i + Len(p)) = p

f_select == <<"s","e","l","e","c","t">>
f_insert == <<"i","n","s","e","r","t">>
f_update == <<"u","p","d","a","t","e">>
f_delete == <<"d","e","l","e","t","e">>
f_chart == <<"c","h","a","r","t">>
f_table == <<"t","a","b","l","e">>

\* line 156: sql_query_response.replace('\n', '').replace('\\', '')
CleanSql(s) == Remove(Remove(s, "\n"), "\\")

IsValidSqlCommand_contains(q) ==
    \E p \in {f_select, f_insert, f_update, f_delete} :
        Contains(Lower(q), p)

\* line 160: sql_query.lower().startswith(('select','insert','update','delete'))
IsValidSqlCommand(q) ==
    \E p \in {f_select, f_insert, f_update, f_delete} :
        StartsWith(Lower(q), p)

----------------------------------------------------------------------------
(* Exceptions: [type, msg] *)

ValueError(m) == [type |-> "ValueError", msg |-> m]
UnboundLocalError(v) == [type |-> "UnboundLocalError", msg |-> v]
ClientError(op) == [type |-> "ClientError", msg |-> op]
QueryException(m) == [type |-> "Exception", msg |-> m]
NoException == [type |-> "none", msg |-> ""]

\* the classes of the exceptions above, all subclasses of Exception
ExceptionClasses == {"ValueError", "UnboundLocalError", "ClientError", "Exception"}

HandlerCatches_only_ValueError(e) == e.type = "ValueError"

\* line 254: except Exception as e
HandlerCatches(e) == e.type \in ExceptionClasses

ExecuteCatches_only_ClientError(e) == e.type = "ClientError"

\* line 98: except Exception as e
ExecuteCatches(e) == e.type \in ExceptionClasses

----------------------------------------------------------------------------
(* The sender (common.sender.MessageSender): each call is recorded *)

send_heartbeat(log) == Append(log, [op |-> "send_heartbeat", arg |-> <<>>])
send_text(log, text) == Append(log, [op |-> "send_text", arg |-> <<text>>])
send_error(log, msg) == Append(log, [op |-> "send_error", arg |-> <<msg>>])
send_loop(log, arg) == Append(log, [op |-> "send_loop", arg |-> <<arg>>])

----------------------------------------------------------------------------
(* Inbound events *)

SessionIds == {None, Some(""), Some("s1")}
EventTypes == {Some("HEARTBEAT"), Some("CONVERSE"), Some("DISCONNECT"), None}
Bodies == [session_id : SessionIds, event_type : EventTypes]

SessionMissing_only_None(b) == b.session_id = None

\* line 111: if not session_id
SessionMissing(b) == ~TruthyId(b.session_id)

IsHeartbeat_wrong_literal(b) == b.event_type = Some("PING")

\* line 114: event_type == "HEARTBEAT"
IsHeartbeat(b) == b.event_type = Some("HEARTBEAT")

IsConverse_by_default(b) == b.event_type # Some("HEARTBEAT")

\* line 116: event_type == "CONVERSE"
IsConverse(b) == b.event_type = Some("CONVERSE")

----------------------------------------------------------------------------
(* Stream chunks of the model service *)

TextChunk(s) == [kind |-> "text", text |-> s, id |-> 0]
ToolChunk(i) == [kind |-> "toolUse", text |-> <<>>, id |-> i]

\* ConverseToolExecutor.process_chunk: the text fragment of a text chunk,
\* nothing for any other chunk
process_chunk(chunk) == IF chunk.kind = "text" THEN chunk.text ELSE <<>>

SqlStreams == {
    <<TextChunk(<<"S","E","L","E","C","T">>), TextChunk(<<" ","1">>)>>,
    <<TextChunk(<<"s","e","l","\\">>), TextChunk(<<"\n","e","c","t"," ","*","\n">>)>>,
    <<TextChunk(<<"D","R","O","P"," ","t">>)>>,
    <<TextChunk(<<"W","I","T","H"," ","x"," ","s","e","l","e","c","t">>)>>,
    <<TextChunk(<<" "," ">>), TextChunk(<<>>)>>,
    <<>>,
    <<TextChunk(<<"U","p","d","a","t","e"," ","t">>), ToolChunk(1)>>,
    <<TextChunk(<<"\\">>)>>,
    <<TextChunk(<<>>), TextChunk(<<"d","e","l","e","t","e">>), TextChunk(<<"\n">>)>>,
    <<TextChunk(<<"\\"," ","I","n","s","e","r","t">>)>>,
    <<TextChunk(<<"I","n","S","e","R","t"," ","x">>)>>,
    <<TextChunk(<<"s","e","l","e","c">>)>> }

IntentStreams == {
    <<TextChunk(<<"a"," ","C","h","a","r","t">>)>>,
    <<TextChunk(<<"t","a","b">>), TextChunk(<<"l","e">>)>>,
    <<TextChunk(<<"t","a","b","l","e"," ">>), TextChunk(<<"c","h","a","r","t">>)>>,
    <<TextChunk(<<"T","A","B","L","E">>), ToolChunk(1), ToolChunk(2)>>,
    <<TextChunk(<<"c","h","a","r","t">>), ToolChunk(1)>>,
    <<TextChunk(<<"p","i","e">>)>>,
    <<TextChunk(<<"\n">>)>>,
    <<>> }

GenStreams == {
    <<TextChunk(<<"{">>), TextChunk(<<"}">>)>>,
    <<TextChunk(<<"x">>), ToolChunk(1)>>,
    <<>> }

StreamsOf(c) ==
    IF c = "sql" THEN SqlStreams
    ELSE IF c = "intent" THEN IntentStreams
    ELSE GenStreams

----------------------------------------------------------------------------
(* Conversation messages: [role, label, toolUse, toolResult] *)

UserMessage(label) ==
    [role |-> "user", label |-> label, toolUse |-> <<>>, toolResult |-> <<>>]

\* ConverseToolExecutor.get_assistant_messages: one assistant message built
\* from the text and the tool requests of the stream
get_assistant_messages(reqs) ==
    << [role |-> "assistant", label |-> "assistant",
        toolUse |-> reqs, toolResult |-> <<>>] >>

----------------------------------------------------------------------------
(* Query results *)

ResultsUnbound == [state |-> "unbound", rows |-> <<>>]
ResultsNone == [state |-> "None", rows |-> <<>>]
ResultsRows(r) == [state |-> "rows", rows |-> r]

TruthyResults_not_none(r) == r.state = "rows"

\* if results: a list is truthy when it is not empty, None is falsy
TruthyResults(r) == r.state = "rows" /\ r.rows # <<>>

\* the rows of page p of a job whose pages have the sizes in pages
PageRows(pages, p) == [i \in 1..pages[p] |-> <<p, i>>]

\* the continuation tokens of the provider: opaque non-empty strings, one per
\* page after the first
TokenNames == <<"t1", "t2", "t3", "t4", "t5", "t6">>

\* NextToken of page p: the token of page p + 1, none on the last page
PageNextToken(pages, p) ==
    IF p < Len(pages) THEN Some(TokenNames[p + 1]) ELSE None

\* the page a request names: the first without token, else the token's page
PageOf(token) ==
    IF token = None THEN 1
    ELSE CHOOSE p \in 1..Len(TokenNames) : TokenNames[p] = token[1]

PageSeqs == UNION {[1..k -> 0..MaxPageRows] : k \in 1..MaxPages}

Envelope == [kind |-> "return", statusCode |-> 200, ok |-> TRUE]
NoReturn == [kind |-> "none", statusCode |-> 0, ok |-> FALSE]
Raised(e) == [kind |-> "raise", statusCode |-> 0, ok |-> FALSE]

----------------------------------------------------------------------------
Init ==
    /\ body \in Bodies
    /\ pc = "start"
    /\ call = "none"
    /\ stream = <<>>
    /\ response_text = <<>>
    /\ tool_requests = <<>>
    /\ converse_messages = <<>>
    /\ bedrock_calls = <<>>
    /\ sent = <<>>
    /\ sql_query_response = None
    /\ sql_query = None
    /\ results = ResultsUnbound
    /\ query_results_str = None
    /\ intent_response = None
    /\ generative_messages = None
    /\ generative_response = None
    /\ athena_calls = <<>>
    /\ status = "NONE"
    /\ polls = 0
    /\ job_pages = <<>>
    /\ next_token = None
    /\ fetched = <<>>
    /\ exc = NoException
    /\ ret = NoReturn


modelVars == <<call, stream, response_text, tool_requests,
               converse_messages, bedrock_calls>>
turnVars == <<sql_query_response, sql_query, results, query_results_str,
              intent_response, generative_messages, generative_response>>
athenaVars == <<athena_calls, status, polls, job_pages, next_token, fetched>>

----------------------------------------------------------------------------
(* handle_message, lines 107-138: validation and dispatch *)

HandleMessageStart ==
    /\ pc = "start"
    /\ IF SessionMissing(body)
       THEN /\ exc' = ValueError("Session ID is required")
            /\ pc' = "except"
            /\ UNCHANGED <<sent, call, converse_messages>>
       ELSE IF IsHeartbeat(body)
       THEN /\ sent' = send_heartbeat(sent)
            /\ pc' = "return"
            /\ UNCHANGED <<exc, call, converse_messages>>
       ELSE IF IsConverse(body)
       THEN /\ converse_messages' = <<UserMessage("sql_query_message")>>
            /\ call' = "sql"
            /\ pc' = "invoke"
            /\ UNCHANGED <<exc, sent>>
       ELSE /\ exc' = ValueError("Unknown event type")
            /\ pc' = "except"
            /\ UNCHANGED <<sent, call, converse_messages>>
    /\ UNCHANGED <<body, stream, response_text, tool_requests, bedrock_calls,
                   turnVars, athenaVars, ret>>

----------------------------------------------------------------------------
(* converse_make_request_stream, lines 260-304 *)

\* lines 275-286: the model call returns a stream
ConverseStream ==
    /\ pc = "invoke"
    /\ \E s \in StreamsOf(call) : stream' = s
    /\ bedrock_calls' = Append(bedrock_calls,
           [call |-> call, messages |-> converse_messages, ok |-> TRUE,
            stream |-> stream'])
    /\ response_text' = <<>>
    /\ tool_requests' = <<>>
    /\ pc' = "stream"
    /\ UNCHANGED <<body, call, converse_messages, sent, turnVars, athenaVars,
                   exc, ret>>

\* lines 275-281: the model call raises
ConverseStreamFails ==
    /\ pc = "invoke"
    /\ bedrock_calls' = Append(bedrock_calls,
           [call |-> call, messages |-> converse_messages, ok |-> FALSE,
            stream |-> <<>>])
    /\ exc' = ClientError("converse_stream")
    /\ pc' = "except"
    /\ UNCHANGED <<body, call, stream, response_text, tool_requests,
                   converse_messages, sent, turnVars, athenaVars, ret>>

\* lines 287-296: one iteration of the loop over the stream
ProcessChunk ==
    /\ pc = "stream"
    /\ stream # <<>>
    /\ LET chunk == Head(stream)
           text == process_chunk(chunk)
       IN /\ IF text # <<>>
             THEN /\ sent' = send_text(sent, text)
                  /\ response_text' = response_text \o text
             ELSE UNCHANGED <<sent, response_text>>
          /\ tool_requests' = IF chunk.kind = "toolUse"
                              THEN Append(tool_requests, chunk.id)
                              ELSE tool_requests
    /\ stream' = Tail(stream)
    /\ UNCHANGED <<body, pc, call, converse_messages, bedrock_calls, turnVars,
                   athenaVars, exc, ret>>

\* line 287: the iteration over the event stream raises
StreamFails ==
    /\ pc = "stream"
    /\ stream # <<>>
    /\ exc' = ClientError("converse_stream")
    /\ pc' = "except"
    /\ UNCHANGED <<body, modelVars, sent, turnVars, athenaVars, ret>>

ReturnPoint_skips_query(c) ==
    IF c = "sql" THEN "after_execute"
    ELSE IF c = "intent" THEN "decide"
    ELSE "send_loop"

ReturnPoint_skips_send_loop(c) ==
    IF c = "sql" THEN "validate_sql"
    ELSE IF c = "intent" THEN "decide"
    ELSE "return"

\* where handle_message goes on when a model call has returned: line 153
\* after the query-generation call, line 198 after the classification call,
\* line 249 after the generation call
ReturnPoint(c) ==
    IF c = "sql" THEN "validate_sql"
    ELSE IF c = "intent" THEN "decide"
    ELSE "send_loop"

\* lines 299-304, and the assignment of the returned text in handle_message
\* (lines 142, 187, 238)
FinishStream ==
    /\ pc = "stream"
    /\ stream = <<>>
    /\ converse_messages' = converse_messages \o get_assistant_messages(tool_requests)
    /\ LET value == Some(Strip(response_text))
       IN IF call = "sql"
          THEN /\ sql_query_response' = value
               /\ UNCHANGED <<intent_response, generative_response>>
          ELSE IF call = "intent"
          THEN /\ intent_response' = value
               /\ UNCHANGED <<sql_query_response, generative_response>>
          ELSE /\ generative_response' = value
               /\ UNCHANGED <<sql_query_response, intent_response>>
    /\ pc' = ReturnPoint(call)
    /\ UNCHANGED <<body, call, stream, response_text, tool_requests,
                   bedrock_calls, sent, sql_query, results, query_results_str,
                   generative_messages, athenaVars, exc, ret>>

----------------------------------------------------------------------------
(* handle_message, lines 155-161 and 250-251 *)

ValidateSql ==
    /\ pc = "validate_sql"
    /\ IF Truthy(sql_query_response)
       THEN LET q == CleanSql(sql_query_response[1])
            IN /\ sql_query' = Some(q)
               /\ IF ~IsValidSqlCommand(q)
                  THEN /\ exc' = ValueError("Generated query is not a valid SQL command.")
                       /\ pc' = "except"
                  ELSE /\ pc' = "execute"
                       /\ UNCHANGED exc
               /\ UNCHANGED sent
       ELSE /\ sent' = send_error(sent, "Failed to execute query")
            /\ pc' = "return"
            /\ UNCHANGED <<sql_query, exc>>
    /\ UNCHANGED <<body, modelVars, sql_query_response, results,
                   query_results_str, intent_response, generative_messages,
                   generative_response, athenaVars, ret>>

----------------------------------------------------------------------------
(* execute_athena_query, lines 89-100, with run_athena_query (42-53) and    *)
(* get_athena_query_results (55-87)                                         *)

AthenaCall(op, token, ok) == [op |-> op, token |-> token, ok |-> ok]

\* lines 91-95, 44-53: the empty query is refused before the try block; else
\* start_query_execution returns a job id
RunAthenaQuery ==
    /\ pc = "execute"
    /\ IF ~Truthy(sql_query)
       THEN /\ exc' = ValueError("Query is required")
            /\ pc' = "except"
            /\ UNCHANGED athena_calls
       ELSE /\ athena_calls' = Append(athena_calls,
                   AthenaCall("start_query_execution", None, TRUE))
            /\ pc' = "poll"
            /\ UNCHANGED exc
    /\ UNCHANGED <<body, modelVars, sent, turnVars, status, polls, job_pages,
                   next_token, fetched, ret>>

\* lines 95, 44: start_query_execution raises
RunAthenaQueryFails ==
    /\ pc = "execute"
    /\ Truthy(sql_query)
    /\ athena_calls' = Append(athena_calls,
                              AthenaCall("start_query_execution", None, FALSE))
    /\ exc' = ClientError("start_query_execution")
    /\ pc' = "exec_except"
    /\ UNCHANGED <<body, modelVars, sent, turnVars, status, polls, job_pages,
                   next_token, fetched, ret>>

PollAgain_on_failed(st) == st \notin {"SUCCEEDED", "CANCELLED"}

PollAgain_only_running(st) == st = "RUNNING"

\* lines 63-70: every status but the three tested ones sleeps and polls again
PollAgain(st) == st \notin {"SUCCEEDED", "FAILED", "CANCELLED"}

\* lines 59-74: one iteration of the status loop
PollStatus ==
    /\ pc = "poll"
    /\ \E st \in {"QUEUED", "RUNNING", "SUCCEEDED", "FAILED", "CANCELLED"} :
        /\ st \in {"QUEUED", "RUNNING"} => polls < MaxPolls
        /\ status' = st
        /\ athena_calls' = Append(athena_calls,
                                  AthenaCall("get_query_execution", None, TRUE))
        /\ IF PollAgain(st)
           THEN /\ polls' = polls + 1
                /\ pc' = "poll"
                /\ UNCHANGED <<exc, job_pages, fetched, next_token>>
           ELSE IF st = "SUCCEEDED"
           THEN /\ \E pages \in PageSeqs : job_pages' = pages
                /\ fetched' = <<>>
                /\ next_token' = None
                /\ pc' = "fetch"
                /\ UNCHANGED <<exc, polls>>
           ELSE /\ exc' = IF st = "FAILED"
                          THEN QueryException("Query failed")
                          ELSE QueryException("Query was cancelled")
                /\ pc' = "exec_except"
                /\ UNCHANGED <<polls, job_pages, fetched, next_token>>
    /\ UNCHANGED <<body, modelVars, sent, turnVars, ret>>

\* line 60: get_query_execution raises
PollFails ==
    /\ pc = "poll"
    /\ athena_calls' = Append(athena_calls,
                              AthenaCall("get_query_execution", None, FALSE))
    /\ exc' = ClientError("get_query_execution")
    /\ pc' = "exec_except"
    /\ UNCHANGED <<body, modelVars, sent, turnVars, status, polls, job_pages,
                   next_token, fetched, ret>>

\* lines 78-79: the token is passed only when there is one
RequestToken(token) == IF TruthyId(token) THEN token ELSE None

ExtendResults_replace(rows, page) == page

\* line 82: results.extend(result_page['ResultSet']['Rows'])
ExtendResults(rows, page) == rows \o page

\* lines 76-87 and 96-97: one iteration of the page loop; after the last page
\* the rows are returned to handle_message (line 164)
FetchPage ==
    /\ pc = "fetch"
    /\ LET token == RequestToken(next_token)
           p == PageOf(token)
           rows == ExtendResults(fetched, PageRows(job_pages, p))
           nt == PageNextToken(job_pages, p)
       IN /\ athena_calls' = Append(athena_calls,
                                    AthenaCall("get_query_results", token, TRUE))
          /\ fetched' = rows
          /\ next_token' = nt
          /\ IF ~TruthyId(nt)
             THEN /\ results' = ResultsRows(rows)
                  /\ pc' = "after_execute"
             ELSE /\ pc' = "fetch"
                  /\ UNCHANGED results
    /\ UNCHANGED <<body, modelVars, sent, sql_query_response, sql_query,
                   query_results_str, intent_response, generative_messages,
                   generative_response, status, polls, job_pages, exc, ret>>

\* line 81: get_query_results raises
FetchFails ==
    /\ pc = "fetch"
    /\ athena_calls' = Append(athena_calls,
           AthenaCall("get_query_results", RequestToken(next_token), FALSE))
    /\ exc' = ClientError("get_query_results")
    /\ pc' = "exec_except"
    /\ UNCHANGED <<body, modelVars, sent, turnVars, status, polls, job_pages,
                   next_token, fetched, ret>>

\* lines 98-100: the exception is printed and None is returned
ExecuteExcept ==
    /\ pc = "exec_except"
    /\ IF ExecuteCatches(exc)
       THEN /\ results' = ResultsNone
            /\ exc' = NoException
            /\ pc' = "after_execute"
       ELSE /\ pc' = "except"
            /\ UNCHANGED <<results, exc>>
    /\ UNCHANGED <<body, modelVars, sent, sql_query_response, sql_query,
                   query_results_str, intent_response, generative_messages,
                   generative_response, athenaVars, ret>>

----------------------------------------------------------------------------
(* handle_message, lines 167-258 *)

\* lines 167-184: the results are dumped when there are any, and the
\* classification call is prepared
AfterExecute ==
    /\ pc = "after_execute"
    /\ query_results_str' = IF TruthyResults(results)
                            THEN Some(results.rows)
                            ELSE query_results_str
    /\ converse_messages' = <<UserMessage("intent_message")>>
    /\ call' = "intent"
    /\ pc' = "invoke"
    /\ UNCHANGED <<body, stream, response_text, tool_requests, bedrock_calls,
                   sent, sql_query_response, sql_query, results,
                   intent_response, generative_messages, generative_response,
                   athenaVars, exc, ret>>

IntentOf_table_first(response) ==
    IF Contains(Lower(response), f_table) THEN "table"
    ELSE IF Contains(Lower(response), f_chart) THEN "chart"
    ELSE "unknown"

\* lines 201, 218: "chart" is looked for first, then "table"
IntentOf(response) ==
    IF Contains(Lower(response), f_chart) THEN "chart"
    ELSE IF Contains(Lower(response), f_table) THEN "table"
    ELSE "unknown"

\* lines 199-236: the intent decides the generation prompt; reading a local
\* variable that was never assigned raises UnboundLocalError
Decide ==
    /\ pc = "decide"
    /\ IF Truthy(intent_response) /\ query_results_str = None
       THEN \* line 199 reads query_results_str
            /\ exc' = UnboundLocalError("query_results_str")
            /\ pc' = "except"
            /\ UNCHANGED <<sent, generative_messages, converse_messages, call>>
       ELSE IF Truthy(intent_response) /\ IntentOf(intent_response[1]) # "unknown"
       THEN /\ generative_messages' = Some(IntentOf(intent_response[1]))
            /\ converse_messages' = <<UserMessage(IntentOf(intent_response[1]))>>
            /\ call' = "gen"
            /\ pc' = "invoke"
            /\ UNCHANGED <<sent, exc>>
       ELSE \* line 236 reads generative_messages
            /\ sent' = IF Truthy(intent_response)
                       THEN send_error(sent, "Unable to determine visualization type.")
                       ELSE sent
            /\ exc' = UnboundLocalError("generative_messages")
            /\ pc' = "except"
            /\ UNCHANGED <<generative_messages, converse_messages, call>>
    /\ UNCHANGED <<body, stream, response_text, tool_requests, bedrock_calls,
                   sql_query_response, sql_query, results, query_results_str,
                   intent_response, generative_response, athenaVars, ret>>

\* line 249
SendLoop ==
    /\ pc = "send_loop"
    /\ sent' = send_loop(sent, generative_response[1])
    /\ pc' = "return"
    /\ UNCHANGED <<body, modelVars, turnVars, athenaVars, exc, ret>>

\* lines 254-256; an exception the clause does not catch leaves handle_message
Except ==
    /\ pc = "except"
    /\ IF HandlerCatches(exc)
       THEN /\ sent' = send_error(sent, exc.msg)
            /\ pc' = "return"
            /\ UNCHANGED ret
       ELSE /\ ret' = Raised(exc)
            /\ pc' = "done"
            /\ UNCHANGED sent
    /\ UNCHANGED <<body, modelVars, turnVars, athenaVars, exc>>

\* line 258
Return ==
    /\ pc = "return"
    /\ ret' = Envelope
    /\ pc' = "done"
    /\ UNCHANGED <<body, modelVars, sent, turnVars, athenaVars, exc>>

Next ==
    \/ HandleMessageStart
    \/ ConverseStream
    \/ ConverseStreamFails
    \/ ProcessChunk
    \/ StreamFails
    \/ FinishStream
    \/ ValidateSql
    \/ RunAthenaQuery
    \/ RunAthenaQueryFails
    \/ PollStatus
    \/ PollFails
    \/ FetchPage
    \/ FetchFails
    \/ ExecuteExcept
    \/ AfterExecute
    \/ Decide
    \/ SendLoop
    \/ Except
    \/ Return

Spec == Init /\ [][Next]_vars

----------------------------------------------------------------------------
(* Observations used by the properties *)

SentWith(op) == SelectSeq(sent, LAMBDA m : m.op = op)
ErrorMessages == [i \in 1..Len(SentWith("send_error")) |-> SentWith("send_error")[i].arg[1]]
CallsOf(c) == SelectSeq(bedrock_calls, LAMBDA b : b.call = c)
AthenaCallsOf(op) == SelectSeq(athena_calls, LAMBDA a : a.op = op)
Range(f) == {f[i] : i \in DOMAIN f}

\* a stream requests a tool when one of its chunks carries a tool request
RequestsTool(st) == \E i \in 1..Len(st) : st[i].kind = "toolUse"

\* a response without newlines and backslashes
WithoutNewlinesAndBackslashes(s) == SelectSeq(s, LAMBDA c : c \notin {"\n", "\\"})

\* s begins with the keyword kw, whatever the case of its letters
BeginsIgnoringCase(s, kw) ==
    /\ Len(s) >= Len(kw)
    /\ \A i \in 1..Len(kw) :
          \/ s[i] = kw[i]
          \/ \E j \in 1..26 : LowerChars[j] = kw[i] /\ UpperChars[j] = s[i]

BeginsWithSqlKeyword(s) ==
    \E kw \in {f_select, f_insert, f_update, f_delete} :
        BeginsIgnoringCase(WithoutNewlinesAndBackslashes(s), kw)

\* neither "chart" nor "table" occurs in the response, in any case
NeitherChartNorTable(r) ==
    /\ ~Contains(Lower(r), f_chart)
    /\ ~Contains(Lower(r), f_table)

\* the pages of a job from page p on, concatenated
RECURSIVE ConcatPages(_, _)
ConcatPages(pages, p) ==
    IF p > Len(pages) THEN <<>>
    ELSE PageRows(pages, p) \o ConcatPages(pages, p + 1)

RECURSIVE SumSizes(_, _)
SumSizes(pages, p) ==
    IF p > Len(pages) THEN 0 ELSE pages[p] + SumSizes(pages, p + 1)

----------------------------------------------------------------------------
(* C1: an event whose session_id is missing or empty, whatever its          *)
(* event_type, fails with the validation error through send_error: no model *)
(* call, no query submission and no send_heartbeat is attempted, and the    *)
(* turn ends with the one error "Session ID is required".                   *)
InvC1 ==
    body.session_id \in {None, Some("")} =>
        /\ bedrock_calls = <<>>
        /\ athena_calls = <<>>
        /\ SentWith("send_heartbeat") = <<>>
        /\ pc = "done" => ErrorMessages = <<"Session ID is required">>

WitC1 ==
    /\ pc = "done"
    /\ body.session_id = Some("")
    /\ body.event_type = Some("HEARTBEAT")
    /\ ErrorMessages = <<"Session ID is required">>

(* C2: a CONVERSE turn whose query returned rows and whose classifier       *)
(* response contains neither "chart" nor "table" ends with exactly one      *)
(* error message and without a generation model call.                       *)
CexC2 ==
    ( /\ pc = "done"
      /\ TruthyResults(results)
      /\ intent_response # None
      /\ NeitherChartNorTable(intent_response[1]) )
    => /\ Len(ErrorMessages) = 1
       /\ CallsOf("gen") = <<>>

(* C3: when the query job ends in FAILED or CANCELLED no model call is made *)
(* after the query pipeline returns, and the turn ends with a send_error.   *)
CexC3 ==
    status \in {"FAILED", "CANCELLED"} =>
        /\ CallsOf("intent") = <<>>
        /\ CallsOf("gen") = <<>>
        /\ pc = "done" => Len(ErrorMessages) >= 1

(* C4: when converse_make_request_stream returns from a model call whose    *)
(* stream held N >= 1 distinct tool request ids, the model has been invoked *)
(* again for that call, and the history of the re-invocation holds exactly  *)
(* N tool outcome blocks, one per request id (an executed tool call is      *)
(* visible as its outcome block).                                           *)
CexC4 ==
    (pc \in {"validate_sql", "decide", "send_loop"} /\ tool_requests # <<>>) =>
        /\ Len(CallsOf(call)) >= 2
        /\ LET history == bedrock_calls[Len(bedrock_calls)].messages
               outcomes == UNION {Range(history[i].toolResult) : i \in 1..Len(history)}
           IN outcomes = Range(tool_requests)

(* C5: a turn in which every response stream of the model requested a tool  *)
(* ends with a reported error and not as a normal completion.               *)
CexC5 ==
    ( /\ pc = "done"
      /\ bedrock_calls # <<>>
      /\ \A i \in 1..Len(bedrock_calls) :
            bedrock_calls[i].ok /\ RequestsTool(bedrock_calls[i].stream) )
    => /\ Len(ErrorMessages) >= 1
       /\ SentWith("send_loop") = <<>>

(* C6: every turn ends by returning the envelope with status 200 and        *)
(* ok = true, whatever failed inside it; no exception leaves handle_message.*)
InvC6 ==
    /\ ret.kind # "raise"
    /\ pc = "done" => ret = [kind |-> "return", statusCode |-> 200, ok |-> TRUE]

WitC6 ==
    /\ pc = "done"
    /\ ret.statusCode = 200
    /\ status = "FAILED"
    /\ \E i \in 1..Len(bedrock_calls) : ~bedrock_calls[i].ok
    /\ Len(ErrorMessages) = 1

----------------------------------------------------------------------------
(* C7 *)

Terminal == {"SUCCEEDED", "FAILED", "CANCELLED"}
LastAthenaCall == athena_calls[Len(athena_calls)]
PollObserved == pc = "poll" /\ athena_calls' # athena_calls /\ LastAthenaCall'.ok

\* on QUEUED or RUNNING the loop polls again; FAILED and CANCELLED end the
\* call with an error; no page is fetched unless SUCCEEDED was observed
PollReactions ==
    /\ (PollObserved /\ status' \in {"QUEUED", "RUNNING"}) => pc' = "poll"
    /\ (PollObserved /\ status' \in {"FAILED", "CANCELLED"}) =>
           (pc' = "exec_except" /\ exc'.type = "Exception")
    /\ (AthenaCallsOf("get_query_results") # <<>>)' => status' = "SUCCEEDED"

(* C7 as stated: the polling phase is left only when a poll observes        *)
(* SUCCEEDED, FAILED or CANCELLED; QUEUED and RUNNING poll again; FAILED    *)
(* and CANCELLED end the call with an error; no result page is fetched for  *)
(* a job not observed in SUCCEEDED.                                         *)
CexC7 ==
    [][ /\ (pc = "poll" /\ pc' # "poll") =>
               (PollObserved /\ status' \in Terminal)
        /\ PollReactions ]_vars

(* C7 amended: the polling phase is left only when a poll observes          *)
(* SUCCEEDED, FAILED or CANCELLED, or when the status request itself        *)
(* raises, which ends the call with that error; the rest as stated.         *)
ThmC7 ==
    [][ /\ (pc = "poll" /\ pc' # "poll") =>
               \/ PollObserved /\ status' \in Terminal
               \/ /\ ~LastAthenaCall'.ok
                  /\ pc' = "exec_except"
                  /\ exc' = ClientError("get_query_execution")
        /\ PollReactions ]_vars

WitC7 ==
    /\ polls >= 1
    /\ status = "SUCCEEDED"
    /\ AthenaCallsOf("get_query_results") # <<>>

----------------------------------------------------------------------------
(* C8: when get_athena_query_results returns the rows of a succeeded job    *)
(* with K pages of sizes n1..nK, the rows are the pages concatenated in     *)
(* page order, n1+...+nK of them; exactly K page requests were issued, the  *)
(* first without token and each later one with the token the previous page  *)
(* returned; no token was requested twice.                                  *)
InvC8 ==
    results.state = "rows" =>
        LET reqs == AthenaCallsOf("get_query_results")
            K == Len(job_pages)
        IN /\ results.rows = ConcatPages(job_pages, 1)
           /\ Len(results.rows) = SumSizes(job_pages, 1)
           /\ Len(reqs) = K
           /\ reqs[1].token = None
           /\ \A i \in 2..K : reqs[i].token = PageNextToken(job_pages, i - 1)
           /\ \A i, j \in 1..K : reqs[i].token = reqs[j].token => i = j

WitC8 ==
    /\ results.state = "rows"
    /\ Len(job_pages) >= 2
    /\ job_pages[1] >= 1
    /\ job_pages[2] >= 1
    /\ Len(AthenaCallsOf("get_query_results")) = Len(job_pages)

----------------------------------------------------------------------------
(* C9: execute_athena_query never lets a failure of submission, of the job  *)
(* (FAILED, CANCELLED, or a status request that raises) or of a page        *)
(* request reach handle_message: it returns None then, and rows only when   *)
(* every step succeeded.                                                    *)
AthenaFailed ==
    \/ \E i \in 1..Len(athena_calls) : ~athena_calls[i].ok
    \/ status \in {"FAILED", "CANCELLED"}

InvC9 ==
    /\ pc = "except" =>
          /\ exc.type \notin {"ClientError", "Exception"} \/ exc.msg = "converse_stream"
    /\ (AthenaFailed /\ pc # "exec_except") =>
          (results = ResultsNone /\ exc.msg \notin {"Query failed", "Query was cancelled"})
    /\ results.state = "None" => AthenaFailed
    /\ results.state = "rows" => (~AthenaFailed /\ status = "SUCCEEDED")

WitC9 ==
    /\ pc = "invoke"
    /\ call = "intent"
    /\ results = ResultsNone
    /\ status = "CANCELLED"

----------------------------------------------------------------------------
(* C10: a query is submitted only if the query-generation response, after   *)
(* removing newlines and backslashes, begins case-insensitively with        *)
(* select, insert, update or delete; every other non-empty response ends    *)
(* the turn with the invalid-query error, without query submission and      *)
(* without a further model call.                                            *)
InvC10 ==
    /\ athena_calls # <<>> =>
          (Truthy(sql_query_response) /\ BeginsWithSqlKeyword(sql_query_response[1]))
    /\ (Truthy(sql_query_response) /\ ~BeginsWithSqlKeyword(sql_query_response[1])) =>
          /\ athena_calls = <<>>
          /\ Len(bedrock_calls) = 1
          /\ pc \in {"validate_sql", "except", "return", "done"}
          /\ pc \in {"return", "done"} =>
                ErrorMessages = <<"Generated query is not a valid SQL command.">>

WitC10 ==
    /\ pc = "done"
    /\ Truthy(sql_query_response)
    /\ Contains(Lower(sql_query_response[1]), f_select)
    /\ ~BeginsWithSqlKeyword(sql_query_response[1])
    /\ ErrorMessages = <<"Generated query is not a valid SQL command.">>

----------------------------------------------------------------------------
(* C11 *)

\* kw occurs somewhere in s, whatever the case of the letters of s
OccursIgnoringCase(s, kw) ==
    \E i \in 1..Len(s) : BeginsIgnoringCase(SubSeq(s, i, Len(s)), kw)

ExpectedIntent(r) ==
    IF OccursIgnoringCase(r, f_chart) THEN "chart"
    ELSE IF OccursIgnoringCase(r, f_table) THEN "table"
    ELSE "unknown"

(* C11: the intent is Chart when the classifier response contains "chart"   *)
(* in any case (also next to "table"), Table when it contains "table" but   *)
(* not "chart", Unknown otherwise; the generation prompt that is chosen and *)
(* sent to the model is the one of that intent, and Unknown chooses none.   *)
InvC11 ==
    /\ generative_messages # None =>
          /\ intent_response # None
          /\ ExpectedIntent(intent_response[1]) # "unknown"
          /\ generative_messages = Some(ExpectedIntent(intent_response[1]))
    /\ \A i \in 1..Len(bedrock_calls) :
          bedrock_calls[i].call = "gen" =>
             bedrock_calls[i].messages =
                <<UserMessage(ExpectedIntent(intent_response[1]))>>
    /\ ( /\ intent_response # None
         /\ query_results_str # None
         /\ pc # "decide"
         /\ ExpectedIntent(intent_response[1]) # "unknown" ) =>
          generative_messages = Some(ExpectedIntent(intent_response[1]))

WitC11 ==
    /\ CallsOf("gen") # <<>>
    /\ OccursIgnoringCase(intent_response[1], f_table)
    /\ OccursIgnoringCase(intent_response[1], f_chart)
    /\ generative_messages = Some("chart")

----------------------------------------------------------------------------
(* C12 *)

ModelCallFailed == exc = ClientError("converse_stream")

(* C12: once a model call has failed in transport the turn is over: the     *)
(* call is not made again, no model call and no query request follows,      *)
(* send_loop is not called, and the turn ends with exactly one send_error.  *)
ThmC12 ==
    [][ /\ ModelCallFailed =>
              /\ bedrock_calls' = bedrock_calls
              /\ athena_calls' = athena_calls
        /\ ModelCallFailed' =>
              /\ Len(CallsOf(call)') = 1
              /\ bedrock_calls'[Len(bedrock_calls')].call = call'
              /\ call' = "sql" => athena_calls' = <<>>
              /\ pc' \in {"except", "return", "done"}
              /\ SentWith("send_loop")' = <<>>
              /\ Len(ErrorMessages') = IF pc' = "except" THEN 0 ELSE 1 ]_vars

WitC12 ==
    /\ pc = "done"
    /\ ModelCallFailed
    /\ Len(bedrock_calls) = 3
    /\ ~bedrock_calls[3].ok
    /\ ErrorMessages = <<"converse_stream">>

----------------------------------------------------------------------------
(* C13 *)

\* the non-empty text fragments of a sequence of chunks, in chunk order
NonEmptyFragments(chunks) ==
    LET sel == SelectSeq(chunks, LAMBDA c : c.kind = "text" /\ c.text # <<>>)
    IN [i \in 1..Len(sel) |-> sel[i].text]

RECURSIVE Join(_)
Join(frags) == IF frags = <<>> THEN <<>> ELSE Head(frags) \o Join(Tail(frags))

\* the chunks of model call i consumed so far: all of an earlier call, and
\* of the last call those no longer waiting in the stream
Consumed(i) ==
    LET full == bedrock_calls[i].stream
    IN IF i < Len(bedrock_calls) THEN full
       ELSE SubSeq(full, 1, Len(full) - Len(stream))

RECURSIVE FragmentsUpTo(_)
FragmentsUpTo(i) ==
    IF i = 0 THEN <<>>
    ELSE FragmentsUpTo(i - 1) \o NonEmptyFragments(Consumed(i))

\* s without its leading and trailing whitespace
Trimmed(s) ==
    LET idx == {i \in 1..Len(s) : s[i] \notin {" ", "\n", "\t", "\r"}}
    IN IF idx = {} THEN <<>>
       ELSE SubSeq(s, CHOOSE i \in idx : \A j \in idx : i <= j,
                      CHOOSE i \in idx : \A j \in idx : i >= j)

ReturnedText(i) == Trimmed(Join(NonEmptyFragments(bedrock_calls[i].stream)))

(* C13: at every point of a model call the fragments passed to send_text    *)
(* are exactly the non-empty fragments of the chunks consumed so far, in    *)
(* chunk order; the accumulated text is their concatenation, and the text   *)
(* the call returns is that concatenation trimmed.                          *)
InvC13 ==
    /\ [i \in 1..Len(SentWith("send_text")) |-> SentWith("send_text")[i].arg[1]]
          = FragmentsUpTo(Len(bedrock_calls))
    /\ pc = "stream" =>
          response_text = Join(NonEmptyFragments(Consumed(Len(bedrock_calls))))
    /\ sql_query_response # None => sql_query_response[1] = ReturnedText(1)
    /\ intent_response # None => intent_response[1] = ReturnedText(2)
    /\ generative_response # None => generative_response[1] = ReturnedText(3)

WitC13 ==
    /\ pc = "validate_sql"
    /\ Len(bedrock_calls[1].stream) = 2
    /\ Len(SentWith("send_text")) = 2
    /\ Len(sql_query_response[1]) < Len(Join(NonEmptyFragments(bedrock_calls[1].stream)))

----------------------------------------------------------------------------
(* C14: a HEARTBEAT event with a session id is acknowledged only: the one   *)
(* sender call of the turn is send_heartbeat, and there is no model call    *)
(* and no query request.                                                    *)
InvC14 ==
    (body.session_id = Some("s1") /\ body.event_type = Some("HEARTBEAT")) =>
        /\ bedrock_calls = <<>>
        /\ athena_calls = <<>>
        /\ sent = IF pc = "start" THEN <<>>
                  ELSE <<[op |-> "send_heartbeat", arg |-> <<>>]>>
        /\ exc = NoException

WitC14 ==
    /\ pc = "done"
    /\ body.session_id = Some("s1")
    /\ body.event_type = Some("HEARTBEAT")
    /\ Len(SentWith("send_heartbeat")) = 1

(* C15: an event with a session id whose event_type is neither HEARTBEAT    *)
(* nor CONVERSE fails with the unknown-event error: one send_error, no      *)
(* send_heartbeat, no model call and no query request.                      *)
InvC15 ==
    ( /\ body.session_id = Some("s1")
      /\ body.event_type \notin {Some("HEARTBEAT"), Some("CONVERSE")} ) =>
        /\ bedrock_calls = <<>>
        /\ athena_calls = <<>>
        /\ SentWith("send_heartbeat") = <<>>
        /\ pc \in {"start", "except", "return", "done"}
        /\ pc \in {"return", "done"} =>
              (sent = <<[op |-> "send_error", arg |-> <<"Unknown event type">>]>>)

WitC15 ==
    /\ pc = "done"
    /\ body.session_id = Some("s1")
    /\ body.event_type = Some("DISCONNECT")
    /\ ErrorMessages = <<"Unknown event type">>

----------------------------------------------------------------------------
(* C16: the polling loop ends at the first poll that observes SUCCEEDED,    *)
(* FAILED or CANCELLED, and a poll that observes QUEUED or RUNNING is       *)
(* followed by another poll whatever the number of polls made so far:       *)
(* nothing but a terminal status (or a raising request) ends the loop, so   *)
(* a job that stays QUEUED or RUNNING keeps it polling (the counter polls   *)
(* is bounded in the model only).                                           *)
ThmC16 ==
    [][ /\ (PollObserved /\ status' \in Terminal) =>
               /\ pc' \in {"fetch", "exec_except"}
               /\ status \notin Terminal
        /\ (PollObserved /\ status' \in {"QUEUED", "RUNNING"}) =>
               /\ pc' = "poll"
               /\ polls' = polls + 1
               /\ exc' = exc
               /\ results' = results
        /\ (pc = "poll" => status \notin Terminal)' ]_vars

WitC16 ==
    /\ polls = MaxPolls
    /\ pc = "fetch"
    /\ status = "SUCCEEDED"
    /\ Len(AthenaCallsOf("get_query_execution")) = MaxPolls + 1

----------------------------------------------------------------------------
(* C17 *)

IsPrefix(s, t) == Len(s) <= Len(t) /\ s = SubSeq(t, 1, Len(s))

QueryInProgress == pc \in {"execute", "poll", "fetch", "exec_except"}

(* C17: the model calls of a turn are, in this order, the query-generation  *)
(* call, the classification call and the generation call, at most one of    *)
(* each; the query is submitted at most once, after the query-generation    *)
(* call has returned, and is polled and then read; the classification call  *)
(* starts only when the query pipeline has returned and the generation call *)
(* only when the classification call has returned; while the query runs no  *)
(* model call is in progress.                                               *)
InvC17 ==
    /\ IsPrefix([i \in 1..Len(bedrock_calls) |-> bedrock_calls[i].call],
                <<"sql", "intent", "gen">>)
    /\ Len(AthenaCallsOf("start_query_execution")) <= 1
    /\ athena_calls # <<>> =>
          /\ athena_calls[1].op = "start_query_execution"
          /\ sql_query_response # None
    /\ \A i, j \in 1..Len(athena_calls) :
          (i < j /\ athena_calls[i].op = "get_query_results") =>
              athena_calls[j].op = "get_query_results"
    /\ QueryInProgress =>
          /\ Len(bedrock_calls) = 1
          /\ stream = <<>>
          /\ (athena_calls # <<>>) <=> (pc # "execute")
    /\ Len(bedrock_calls) >= 2 =>
          (results.state # "unbound" /\ ~QueryInProgress /\ athena_calls # <<>>)
    /\ Len(bedrock_calls) >= 3 =>
          (intent_response # None /\ bedrock_calls[2].ok)
    /\ pc = "invoke" => stream = <<>>

WitC17 ==
    /\ pc = "done"
    /\ Len(bedrock_calls) = 3
    /\ Len(AthenaCallsOf("get_query_execution")) >= 2
    /\ Len(AthenaCallsOf("get_query_results")) >= 2
    /\ SentWith("send_loop") # <<>>

----------------------------------------------------------------------------
(* C18: a CONVERSE turn with a session id ends in exactly one of two ways:  *)
(* send_loop called once, after the generation call has returned and as     *)
(* the last sender call, with no send_error; or at least one send_error     *)
(* and no send_loop.                                                        *)
InvC18 ==
    (body.session_id = Some("s1") /\ body.event_type = Some("CONVERSE")) =>
        LET loops == Len(SentWith("send_loop"))
            errors == Len(ErrorMessages)
        IN /\ loops <= 1
           /\ loops = 1 =>
                 /\ errors = 0
                 /\ sent[Len(sent)] = [op |-> "send_loop", arg |-> generative_response]
                 /\ generative_response # None
                 /\ Len(bedrock_calls) = 3
                 /\ stream = <<>>
           /\ pc = "done" => (loops = 1 \/ errors >= 1)

WitC18 ==
    /\ pc = "done"
    /\ body.event_type = Some("CONVERSE")
    /\ Len(SentWith("send_loop")) = 1
    /\ Len(SentWith("send_text")) >= 3

----------------------------------------------------------------------------
(* C19: the generation call is made only when the query returned at least   *)
(* one row, the classification response is not empty and the intent is      *)
(* Chart or Table. A query that succeeds with no row is treated like a      *)
(* failed one: the classification call is made, the generation call is not, *)
(* and the turn ends with send_error and without send_loop.                 *)
InvC19 ==
    /\ CallsOf("gen") # <<>> =>
          /\ results.state = "rows"
          /\ results.rows # <<>>
          /\ intent_response # None
          /\ intent_response[1] # <<>>
          /\ ~NeitherChartNorTable(intent_response[1])
    /\ (results.state = "rows" /\ results.rows = <<>>) =>
          /\ CallsOf("gen") = <<>>
          /\ SentWith("send_loop") = <<>>
          /\ pc \in {"after_execute", "invoke", "stream", "decide",
                     "except", "return", "done"}
          /\ pc = "done" => (Len(CallsOf("intent")) = 1 /\ Len(ErrorMessages) >= 1)

WitC19 ==
    /\ pc = "done"
    /\ results.state = "rows"
    /\ results.rows = <<>>
    /\ Len(job_pages) = 2
    /\ intent_response # None
    /\ ~NeitherChartNorTable(intent_response[1])
    /\ ErrorMessages = <<"query_results_str">>

----------------------------------------------------------------------------
(* C20: when the query-generation call returns the empty text, the turn     *)
(* submits no query, makes no further model call, raises no exception and   *)
(* emits the one send_error "Failed to execute query".                      *)
InvC20 ==
    sql_query_response = Some(<<>>) =>
        /\ athena_calls = <<>>
        /\ Len(bedrock_calls) = 1
        /\ exc = NoException
        /\ pc \in {"validate_sql", "return", "done"}
        /\ ErrorMessages = IF pc = "validate_sql" THEN <<>>
                           ELSE <<"Failed to execute query">>

WitC20 ==
    /\ pc = "done"
    /\ sql_query_response = Some(<<>>)
    /\ Len(SentWith("send_text")) = 1
    /\ ErrorMessages = <<"Failed to execute query">>

====
